---- MODULE Spec2Model ----
(***************************************************************************)
(* RISC-V Sv39/Sv48 page table entry (Rv64PTE) and the generic mapping     *)
(* flags (MappingFlags) of page_table_entry.                               *)
(*                                                                         *)
(* A machine word (u64, and usize on RV64) is the set of its set bit       *)
(* positions, a subset of 0..63: bit b of the word is 1 iff b is in the    *)
(* set.  Bitwise AND, OR and NOT are intersection, union and complement in *)
(* 0..63; a shift moves the positions and drops those that leave 0..63,    *)
(* which is what the 64-bit shifts of the code do.                         *)
(***************************************************************************)
EXTENDS Integers, FiniteSets, Sequences

VARIABLES
    cow,          \* cfg(feature = "COW") of the build
    debug,        \* cfg(debug_assertions) of the build: debug_assert! is live
    pte,          \* Rv64PTE.0, the entry the caller holds
    call,         \* the last call made and its arguments
    ret,          \* the MappingFlags value returned by the last mark_cow
    table,        \* the entry is new_table's, touched since only by
                  \* set_paddr, set_dirty and set_accessed
    panicked      \* a debug_assert! failed

vars == <<cow, debug, pte, call, ret, table, panicked>>

---------------------------------------------------------------------------
(* Words *)

WordBits == 64

Bit == 0..(WordBits - 1)

Shl(w, n) == {b + n : b \in {x \in w : x + n < WordBits}}

Shr(w, n) == {b - n : b \in {x \in w : x >= n}}

Not(w) == Bit \ w

\* w - v on 64-bit words, v <= w, by ripple borrow from bit i upwards.
RECURSIVE SubFrom(_, _, _, _)
SubFrom(w, v, i, borrow) ==
    IF i = WordBits THEN {}
    ELSE LET x == IF i \in w THEN 1 ELSE 0
             y == (IF i \in v THEN 1 ELSE 0) + borrow
             d == x - y
         IN  (IF d % 2 = 1 THEN {i} ELSE {})
                 \cup SubFrom(w, v, i + 1, IF d < 0 THEN 1 ELSE 0)

Sub(w, v) == SubFrom(w, v, 0, 0)

---------------------------------------------------------------------------
(* PTEFlags: riscv.rs, bitflags *)

V    == Shl({0}, 0)
R    == Shl({0}, 1)
W    == Shl({0}, 2)
X    == Shl({0}, 3)
U    == Shl({0}, 4)
G    == Shl({0}, 5)
A    == Shl({0}, 6)
D    == Shl({0}, 7)
RSW1 == Shl({0}, 8)
RSW2 == Shl({0}, 9)

\* PTEFlags::all(): the union of the defined flags.
PTEFlagsAll == V \cup R \cup W \cup X \cup U \cup G \cup A \cup D \cup RSW1 \cup RSW2

\* PTEFlags::from_bits_truncate: undefined bits are dropped.
FromBitsTruncate(w) == w \cap PTEFlagsAll

Contains(f, g) == g \subseteq f

Intersects(f, g) == f \cap g # {}

---------------------------------------------------------------------------
(* MappingFlags: lib.rs, bitflags *)

READ     == Shl({0}, 0)
WRITE    == Shl({0}, 1)
EXECUTE  == Shl({0}, 2)
USER     == Shl({0}, 3)
DEVICE   == Shl({0}, 4)
UNCACHED == Shl({0}, 5)
COW      == Shl({0}, 6)

\* MappingFlags::all() of a build: COW is a flag only with the feature.
MappingFlagsAll(c) ==
    READ \cup WRITE \cup EXECUTE \cup USER \cup DEVICE \cup UNCACHED
        \cup (IF c THEN COW ELSE {})

\* mark_cow that adds COW and leaves WRITE in place.
mark_cow_keepWrite(flags) ==
    IF Contains(flags, WRITE) THEN flags \cup COW ELSE flags

\* MappingFlags::mark_cow (feature COW).
mark_cow(flags) ==
    IF Contains(flags, WRITE) THEN (flags \ WRITE) \cup COW ELSE flags

\* The conversion without its early return on a clear V bit.
ToMappingFlags_noValidCheck(f, c) ==
    (IF Contains(f, R) THEN READ ELSE {})
        \cup (IF Contains(f, W) THEN WRITE ELSE {})
        \cup (IF Contains(f, X) THEN EXECUTE ELSE {})
        \cup (IF Contains(f, U) THEN USER ELSE {})
        \cup (IF c /\ Contains(f, RSW1) THEN COW ELSE {})

\* The conversion without its U arm.
ToMappingFlags_noUser(f, c) ==
    IF ~Contains(f, V) THEN {}
    ELSE (IF Contains(f, R) THEN READ ELSE {})
            \cup (IF Contains(f, W) THEN WRITE ELSE {})
            \cup (IF Contains(f, X) THEN EXECUTE ELSE {})
            \cup (IF c /\ Contains(f, RSW1) THEN COW ELSE {})

\* impl From<PTEFlags> for MappingFlags; c is cfg(feature = "COW").
ToMappingFlags(f, c) ==
    IF ~Contains(f, V) THEN {}
    ELSE (IF Contains(f, R) THEN READ ELSE {})
            \cup (IF Contains(f, W) THEN WRITE ELSE {})
            \cup (IF Contains(f, X) THEN EXECUTE ELSE {})
            \cup (IF Contains(f, U) THEN USER ELSE {})
            \cup (IF c /\ Contains(f, RSW1) THEN COW ELSE {})

\* The conversion with WRITE mapped to X and EXECUTE to W.
ToPTEFlags_swapWX(f, c) ==
    IF f = {} THEN {}
    ELSE V \cup (IF Contains(f, READ) THEN R ELSE {})
            \cup (IF Contains(f, WRITE) THEN X ELSE {})
            \cup (IF Contains(f, EXECUTE) THEN W ELSE {})
            \cup (IF Contains(f, USER) THEN U ELSE {})
            \cup (IF c /\ Contains(f, COW) THEN RSW1 ELSE {})

\* impl From<MappingFlags> for PTEFlags; c is cfg(feature = "COW").
ToPTEFlags(f, c) ==
    IF f = {} THEN {}
    ELSE V \cup (IF Contains(f, READ) THEN R ELSE {})
            \cup (IF Contains(f, WRITE) THEN W ELSE {})
            \cup (IF Contains(f, EXECUTE) THEN X ELSE {})
            \cup (IF Contains(f, USER) THEN U ELSE {})
            \cup (IF c /\ Contains(f, COW) THEN RSW1 ELSE {})

---------------------------------------------------------------------------
(* Rv64PTE: riscv.rs *)

\* (1 << 54) - (1 << 12): the mask taken at the address's bit numbers.
PHYS_ADDR_MASK_from12 == Sub(Shl({0}, 54), Shl({0}, 12))

\* (1 << 54) - (1 << 10)
PHYS_ADDR_MASK == Sub(Shl({0}, 54), Shl({0}, 10))

empty == {}

\* The flags new_page and set_flags derive, before the debug_assert!.
LeafFlags(flags, c) == ToPTEFlags(flags, c) \cup A \cup D

\* The condition of debug_assert!(flags.intersects(R | X)).
LeafAssert(flags, c) == Intersects(LeafFlags(flags, c), R \cup X)

new_page(paddr, flags, is_huge, c) ==
    LeafFlags(flags, c) \cup (Shr(paddr, 2) \cap PHYS_ADDR_MASK)

\* new_table without the mask on the shifted address.
new_table_unmasked(paddr) == V \cup Shr(paddr, 2)

new_table(paddr) == V \cup (Shr(paddr, 2) \cap PHYS_ADDR_MASK)

paddr_of(e) == Shl(e \cap PHYS_ADDR_MASK, 2)

flags_of(e, c) == ToMappingFlags(FromBitsTruncate(e), c)

\* set_paddr without the mask on the shifted address.
set_paddr_unmasked(e, paddr) == (e \cap Not(PHYS_ADDR_MASK)) \cup Shr(paddr, 2)

set_paddr(e, paddr) ==
    (e \cap Not(PHYS_ADDR_MASK)) \cup (Shr(paddr, 2) \cap PHYS_ADDR_MASK)

\* set_flags_arch that ORs the flags into the whole entry.
set_flags_arch_or(e, flags) == e \cup flags

set_flags_arch(e, flags) == (e \cap PHYS_ADDR_MASK) \cup flags

\* set_flags that keeps the entry's A and D bits instead of setting them.
set_flags_keepStatus(e, flags, is_huge, c) ==
    set_flags_arch(e, ToPTEFlags(flags, c) \cup (e \cap (A \cup D)))

set_flags(e, flags, is_huge, c) == set_flags_arch(e, LeafFlags(flags, c))

bits(e) == e

is_unused(e) == e = {}

is_present(e) == Contains(FromBitsTruncate(e), V)

is_dirty(e) == Contains(FromBitsTruncate(e), D)

\* set_dirty whose clearing arm clears A as well.
set_dirty_both(e, dirty) == IF dirty THEN e \cup D ELSE e \cap Not(A \cup D)

set_dirty(e, dirty) == IF dirty THEN e \cup D ELSE e \cap Not(D)

is_accessed(e) == Contains(FromBitsTruncate(e), A)

set_accessed(e, accessed) == IF accessed THEN e \cup A ELSE e \cap Not(A)

is_huge(e) == Intersects(FromBitsTruncate(e), R \cup X)

clear(e) == {}

---------------------------------------------------------------------------
(* Inputs *)

\* How many of the sample physical addresses the callers pass.
NumAddrs == 4

\* Sample physical addresses (PhysAddr, a usize).
AddrSample(i) ==
    CASE i = 1 -> Shl({0}, 31) \cup Shl({0}, 21)          \* 0x8020_0000
      [] i = 2 -> Bit                                     \* 0xffff_ffff_ffff_ffff
      [] i = 3 -> Shl({0}, 12) \cup Shl({0}, 55)          \* both ends of the field
      [] i = 4 -> {0, 1, 11, 56, 63}                      \* no bit of the field
      [] i = 5 -> Shl({0}, 31) \cup Shl({0}, 20)          \* 0x8010_0000
      [] OTHER -> {}

Addrs == {AddrSample(i) : i \in 1..NumAddrs}

\* The aligned address of the examples, and the address with every bit set.
FewAddrs == {AddrSample(1), AddrSample(2)}

\* Every MappingFlags value of the build.
Flags(c) == SUBSET MappingFlagsAll(c)

\* Of the subsets of all: none, every one, each single flag, each all but
\* one flag, and also.
Samples(all, also) ==
    {{}, all} \cup {{b} : b \in all} \cup {all \ {b} : b \in all} \cup also

\* MappingFlags values that have each flag alone and each flag alone absent.
SomeFlags(c) == Samples(MappingFlagsAll(c), {READ \cup WRITE})

\* PTEFlags values that have each flag alone and each flag alone absent.
ArchFlags == Samples(PTEFlagsAll, {V \cup G \cup RSW2})

NoCall == [op |-> "none", paddr |-> {}, flags |-> {}, arg |-> FALSE]

Call(op, paddr, flags, arg) ==
    [op |-> op, paddr |-> paddr, flags |-> flags, arg |-> arg]

---------------------------------------------------------------------------
(* The caller's steps: one call each *)

Init ==
    /\ cow \in BOOLEAN
    /\ debug \in BOOLEAN
    /\ pte = empty
    /\ call = NoCall
    /\ ret = {}
    /\ table = FALSE
    /\ panicked = FALSE

NewPage(paddr, flags, huge) ==
    /\ ~panicked
    /\ call' = Call("new_page", paddr, flags, huge)
    /\ IF debug /\ ~LeafAssert(flags, cow)
       THEN panicked' = TRUE /\ pte' = pte /\ table' = table
       ELSE panicked' = FALSE /\ pte' = new_page(paddr, flags, huge, cow)
                /\ table' = FALSE
    /\ ret' = {}
    /\ UNCHANGED <<cow, debug>>

NewTable(paddr) ==
    /\ ~panicked
    /\ call' = Call("new_table", paddr, {}, FALSE)
    /\ pte' = new_table(paddr)
    /\ table' = TRUE
    /\ ret' = {}
    /\ UNCHANGED <<cow, debug, panicked>>

SetPaddr(paddr) ==
    /\ ~panicked
    /\ call' = Call("set_paddr", paddr, {}, FALSE)
    /\ pte' = set_paddr(pte, paddr)
    /\ ret' = {}
    /\ UNCHANGED <<cow, debug, table, panicked>>

SetFlags(flags, huge) ==
    /\ ~panicked
    /\ call' = Call("set_flags", {}, flags, huge)
    /\ IF debug /\ ~LeafAssert(flags, cow)
       THEN panicked' = TRUE /\ pte' = pte /\ table' = table
       ELSE panicked' = FALSE /\ pte' = set_flags(pte, flags, huge, cow)
                /\ table' = FALSE
    /\ ret' = {}
    /\ UNCHANGED <<cow, debug>>

SetFlagsArch(flags) ==
    /\ ~panicked
    /\ call' = Call("set_flags_arch", {}, flags, FALSE)
    /\ pte' = set_flags_arch(pte, flags)
    /\ table' = FALSE
    /\ ret' = {}
    /\ UNCHANGED <<cow, debug, panicked>>

SetDirty(dirty) ==
    /\ ~panicked
    /\ call' = Call("set_dirty", {}, {}, dirty)
    /\ pte' = set_dirty(pte, dirty)
    /\ ret' = {}
    /\ UNCHANGED <<cow, debug, table, panicked>>

SetAccessed(accessed) ==
    /\ ~panicked
    /\ call' = Call("set_accessed", {}, {}, accessed)
    /\ pte' = set_accessed(pte, accessed)
    /\ ret' = {}
    /\ UNCHANGED <<cow, debug, table, panicked>>

Clear ==
    /\ ~panicked
    /\ call' = Call("clear", {}, {}, FALSE)
    /\ pte' = clear(pte)
    /\ table' = FALSE
    /\ ret' = {}
    /\ UNCHANGED <<cow, debug, panicked>>

MarkCow(flags) ==
    /\ ~panicked
    /\ cow
    /\ call' = Call("mark_cow", {}, flags, FALSE)
    /\ ret' = mark_cow(flags)
    /\ UNCHANGED <<cow, debug, pte, table, panicked>>

\* Every operation on the entry, on sample flag sets.
Next ==
    \/ \E a \in Addrs : NewTable(a)
    \/ \E a \in Addrs, f \in SomeFlags(cow), h \in BOOLEAN : NewPage(a, f, h)
    \/ \E a \in Addrs : SetPaddr(a)
    \/ \E f \in SomeFlags(cow), h \in BOOLEAN : SetFlags(f, h)
    \/ \E f \in ArchFlags : SetFlagsArch(f)
    \/ \E b \in BOOLEAN : SetDirty(b)
    \/ \E b \in BOOLEAN : SetAccessed(b)
    \/ Clear

Spec == Init /\ [][Next]_vars

\* The operations that build and flag a leaf entry, on every flag set.
NextFlags ==
    \/ \E a \in FewAddrs, f \in Flags(cow), h \in BOOLEAN : NewPage(a, f, h)
    \/ \E f \in Flags(cow), h \in BOOLEAN : SetFlags(f, h)
    \/ \E b \in BOOLEAN : SetDirty(b)
    \/ \E b \in BOOLEAN : SetAccessed(b)

SpecFlags == Init /\ [][NextFlags]_vars

\* Feature COW: mark_cow on every flag set, and leaf entries of what it returns.
NextCow ==
    \/ \E f \in Flags(cow) : MarkCow(f)
    \/ \E a \in FewAddrs, h \in BOOLEAN : call.op = "mark_cow" /\ NewPage(a, ret, h)

InitCow == Init /\ cow

SpecCow == InitCow /\ [][NextCow]_vars

---------------------------------------------------------------------------
(* Vocabulary of the properties *)

\* The last call was op and returned.
Did(op) == call.op = op /\ ~panicked

\* The last call built or flagged a leaf entry, and returned.
DidLeaf == (call.op = "new_page" \/ call.op = "set_flags") /\ ~panicked

FlagBits == 0..9

FieldBits == 10..53

HighBits == 54..63

\* Bits 12..55 of a physical address.
AddrWindow == 12..55

\* The generic flags the hardware entry can carry.
Representable(c) ==
    READ \cup WRITE \cup EXECUTE \cup USER \cup (IF c THEN COW ELSE {})

---------------------------------------------------------------------------
\* C1: after new_page(a, f, h), new_table(a) or set_paddr(a), paddr() is a
\* with every bit outside bits 12..55 cleared; an address that is 4 KiB
\* aligned and below 2^56 comes back exactly.
C1_AddrRoundTrip ==
    (Did("new_page") \/ Did("new_table") \/ Did("set_paddr"))
        => /\ paddr_of(pte) = call.paddr \cap AddrWindow
           /\ (call.paddr \subseteq AddrWindow => paddr_of(pte) = call.paddr)

\* set_paddr of the all-ones address on an entry that has flags: truncated.
C1_Witness ==
    /\ Did("set_paddr")
    /\ call.paddr = Bit
    /\ paddr_of(pte) = AddrWindow
    /\ pte \cap FlagBits # {}

\* C2: from a flag set f with READ or EXECUTE, new_page and set_flags give
\* an entry whose flags() is f restricted to READ, WRITE, EXECUTE, USER (and
\* COW with the feature): only DEVICE and UNCACHED are dropped, none is added.
C2_FlagRoundTrip ==
    (DidLeaf /\ Intersects(call.flags, READ \cup EXECUTE))
        => /\ flags_of(pte, cow) = call.flags \cap Representable(cow)
           /\ call.flags \ flags_of(pte, cow) \subseteq DEVICE \cup UNCACHED
           /\ flags_of(pte, cow) \subseteq call.flags

C2_Witness ==
    /\ Did("set_flags")
    /\ cow
    /\ call.arg
    /\ call.flags = READ \cup EXECUTE \cup USER \cup DEVICE \cup UNCACHED \cup COW
    /\ flags_of(pte, cow) = READ \cup EXECUTE \cup USER \cup COW

\* C3: the empty MappingFlags set converts to no hardware flag, so a leaf
\* entry built or flagged from it (assertion compiled out) is not present;
\* and an entry whose V bit is clear has flags() empty, whatever else is set.
C3_EmptyFlags ==
    /\ (DidLeaf /\ call.flags = {})
            => pte \cap FlagBits = A \cup D /\ ~is_present(pte)
    /\ ~Contains(pte, V) => flags_of(pte, cow) = {}

\* set_flags_arch of every flag but V, on an entry with an address.
C3_Witness ==
    /\ Did("set_flags_arch")
    /\ pte \cap FlagBits = PTEFlagsAll \ V
    /\ pte \cap FieldBits # {}
    /\ flags_of(pte, cow) = {}

\* C4: a new_table entry, also after set_paddr, set_dirty and set_accessed,
\* has none of R, W, X, U, is not huge, is present and has flags() empty.
C4_TablePointer ==
    table => /\ pte \cap (R \cup W \cup X \cup U) = {}
             /\ ~is_huge(pte)
             /\ is_present(pte)
             /\ flags_of(pte, cow) = {}

\* new_table, then set_dirty(true), set_accessed(true), set_paddr(all ones).
C4_Witness ==
    /\ table
    /\ Did("set_paddr")
    /\ call.paddr = Bit
    /\ is_dirty(pte)
    /\ is_accessed(pte)

\* C5: set_flags_arch and set_flags leave paddr() unchanged and make the low
\* ten bits exactly the new hardware flags; set_paddr leaves every bit
\* outside bits 10..53 unchanged, and so every flag accessor.
C5_FieldsIndependent ==
    [][/\ call'.op = "set_flags_arch"
            => /\ paddr_of(pte') = paddr_of(pte)
               /\ pte' \cap FlagBits = call'.flags
       /\ (call'.op = "set_flags" /\ ~panicked')
            => /\ paddr_of(pte') = paddr_of(pte)
               /\ pte' \cap FlagBits = ToPTEFlags(call'.flags, cow) \cup A \cup D
       /\ call'.op = "set_paddr"
            => /\ pte' \ FieldBits = pte \ FieldBits
               /\ flags_of(pte', cow) = flags_of(pte, cow)
               /\ is_present(pte') = is_present(pte)
               /\ is_dirty(pte') = is_dirty(pte)
               /\ is_accessed(pte') = is_accessed(pte)
               /\ is_huge(pte') = is_huge(pte)]_vars

\* set_flags_arch(V | G | RSW2) on an entry that holds 0x8020_0000.
C5_Witness ==
    /\ Did("set_flags_arch")
    /\ call.flags = V \cup G \cup RSW2
    /\ pte \cap FlagBits = V \cup G \cup RSW2
    /\ paddr_of(pte) = AddrSample(1)

\* C6: an entry returned by new_page, and an entry right after set_flags,
\* has Accessed and Dirty set, whatever the flags, the address and the
\* entry's earlier A and D bits; new_page(0x8020_0000, {READ, WRITE}, false)
\* has low byte 0xC7 and address 0x8020_0000.
C6_StatusBits ==
    /\ DidLeaf => is_accessed(pte) /\ is_dirty(pte)
    /\ (call = Call("new_page", AddrSample(1), READ \cup WRITE, FALSE) /\ ~panicked)
            => /\ pte \cap (0..7) = {0, 1, 2, 6, 7}
               /\ paddr_of(pte) = AddrSample(1)

C6_Witness ==
    /\ call = Call("new_page", AddrSample(1), READ \cup WRITE, FALSE)
    /\ ~panicked
    /\ pte \cap (0..7) = {0, 1, 2, 6, 7}

\* C7: set_dirty(b) makes is_dirty() b and changes bit 7 alone,
\* set_accessed(b) makes is_accessed() b and changes bit 6 alone, and the
\* two setters commute on every entry.
C7_SettersIndependent ==
    [][/\ call'.op = "set_dirty"
            => /\ is_dirty(pte') = call'.arg
               /\ pte' \ {7} = pte \ {7}
               /\ is_accessed(pte') = is_accessed(pte)
               /\ flags_of(pte', cow) = flags_of(pte, cow)
               /\ paddr_of(pte') = paddr_of(pte)
               /\ is_present(pte') = is_present(pte)
       /\ call'.op = "set_accessed"
            => /\ is_accessed(pte') = call'.arg
               /\ pte' \ {6} = pte \ {6}
               /\ is_dirty(pte') = is_dirty(pte)
               /\ flags_of(pte', cow) = flags_of(pte, cow)
               /\ paddr_of(pte') = paddr_of(pte)
               /\ is_present(pte') = is_present(pte)
       /\ \A e \in {pte, pte'} : \A d \in BOOLEAN, a \in BOOLEAN :
            set_dirty(set_accessed(e, a), d) = set_accessed(set_dirty(e, d), a)]_vars

\* set_dirty(false) on a present, accessed entry.
C7_Witness ==
    /\ Did("set_dirty")
    /\ ~call.arg
    /\ ~is_dirty(pte)
    /\ is_accessed(pte)
    /\ is_present(pte)

\* C8, as stated: an entry whose flags() is empty is not present.
C8_Original == flags_of(pte, cow) = {} => ~is_present(pte)

\* C8, amended: an entry that is not present has flags() empty; an entry
\* whose flags() is empty is not present, or is present with none of R, W,
\* X, U (nor RSW1 with the feature COW), as a new_table entry is.
C8_Amended ==
    /\ ~is_present(pte) => flags_of(pte, cow) = {}
    /\ (flags_of(pte, cow) = {} /\ is_present(pte))
            => pte \cap (R \cup W \cup X \cup U \cup (IF cow THEN RSW1 ELSE {})) = {}

\* A table pointer: present, and flags() empty.
C8_Witness ==
    /\ table
    /\ is_present(pte)
    /\ flags_of(pte, cow) = {}

\* C9: with COW, mark_cow(f) has no WRITE, has COW exactly when f had WRITE
\* or COW, and is f on every other bit; it keeps READ and EXECUTE, so
\* new_page of it passes the Read-or-Execute assertion when f did, and
\* flags() of that entry has COW and no WRITE when f had WRITE.
C9_MarkCow ==
    /\ call.op = "mark_cow"
            => /\ ~Contains(ret, WRITE)
               /\ Contains(ret, COW)
                    <=> (Contains(call.flags, WRITE) \/ Contains(call.flags, COW))
               /\ ret \ (WRITE \cup COW) = call.flags \ (WRITE \cup COW)
               /\ ~Contains(call.flags, WRITE) => ret = call.flags
               /\ call.flags = READ \cup WRITE => ret = READ \cup COW
               /\ mark_cow(ret) = ret
               /\ Intersects(call.flags, READ \cup EXECUTE)
                    => Intersects(ret, READ \cup EXECUTE)
    /\ call.op = "new_page"
            => \A f \in Flags(cow) : mark_cow(f) = call.flags
                => /\ Intersects(f, READ \cup EXECUTE)
                        => ~panicked /\ Intersects(pte, R \cup X)
                   /\ (Contains(f, WRITE) /\ ~panicked)
                        => /\ Contains(flags_of(pte, cow), COW)
                           /\ ~Contains(flags_of(pte, cow), WRITE)

\* A debug build: new_page of mark_cow({READ, WRITE}) = {READ, COW} returned.
C9_Witness ==
    /\ Did("new_page")
    /\ debug
    /\ call.flags = READ \cup COW
    /\ flags_of(pte, cow) = READ \cup COW

\* C10: in every reachable entry bits 54..63 are zero, and paddr() has bits
\* 0..11 and 56..63 zero.
C10_OutsideBitsZero ==
    /\ bits(pte) \cap HighBits = {}
    /\ paddr_of(pte) \cap ((0..11) \cup (56..63)) = {}

\* set_paddr of the all-ones address on an entry with every flag set.
C10_Witness ==
    /\ Did("set_paddr")
    /\ call.paddr = Bit
    /\ pte \cap FieldBits = FieldBits
    /\ pte \cap FlagBits = PTEFlagsAll

====
